---- MODULE Spec2Model ----
(***************************************************************************)
(* A model of PlasmaPy's noxfile.py: the registered nox sessions, the      *)
(* requirements-file path function, and the body of every session as the   *)
(* ordered list of steps (session.debug / session.install / session.run)   *)
(* it performs.  One nox invocation is one behaviour: the module is        *)
(* loaded (Init), a session is selected (nox_default / nox_s), its body is *)
(* executed step by step, and an external command that exits non-zero      *)
(* raises out of the body.                                                 *)
(***************************************************************************)
EXTENDS Integers, Sequences, FiniteSets, TLC

VARIABLES
    CI,             \* os.getenv("CI") when the module is loaded
    GH_TOKEN,       \* os.getenv("GH_TOKEN")
    version_info,   \* sys.version_info.minor of the interpreter nox runs under
    posargs,        \* session.posargs: the arguments after "--"
    landing_exists, \* does docs/build/html/index.html exist on disk
    selected,       \* the session names nox was asked to run
    session,        \* the session being run (or NoSession)
    pc,             \* index of the next step of the session body
    result,         \* "idle", "running", "success", "failed", "not_found"
    env,            \* session.env: variables set by the body
    log,            \* the steps performed so far, with their exit codes
    calls           \* direct calls of _get_requirements_filepath and their results

vars == <<CI, GH_TOKEN, version_info, posargs, landing_exists, selected,
          session, pc, result, env, log, calls>>

----------------------------------------------------------------------------
(* Bounds of the model *)

\* the longest list of extra arguments a caller passes
MaxPosargs == 1
\* the newest Python minor version nox itself may be installed under
MaxMinor == 13
\* the oldest Python minor version nox itself may be installed under
MinMinor == 9

Range(s) == {s[i] : i \in 1..Len(s)}

\* the extra arguments a caller may pass after "--"
PosargWords == {"-x", "-m"}

RECURSIVE SeqsUpTo(_, _)
SeqsUpTo(S, n) ==
    IF n = 0 THEN {<<>>}
    ELSE LET shorter == SeqsUpTo(S, n - 1)
         IN  shorter \cup {Append(s, w) : s \in shorter, w \in S}

\* os.getenv returns None or a string
Unset == [set |-> FALSE, value |-> ""]
EnvValue(v) == [set |-> TRUE, value |-> v]

\* Python truthiness of the value os.getenv returned
Truthy(e) == e.set /\ e.value # ""

----------------------------------------------------------------------------
(* Module-level values *)

supported_python_versions == <<"3.10", "3.11", "3.12">>

\* the code points of the characters of the version strings
ord == ("3.10" :> <<51, 46, 49, 48>>) @@ ("3.11" :> <<51, 46, 49, 49>>)
       @@ ("3.12" :> <<51, 46, 49, 50>>)

\* Python's str "<": lexicographic on code points
RECURSIVE seq_lt(_, _)
seq_lt(a, b) ==
    IF b = <<>> THEN FALSE
    ELSE IF a = <<>> THEN TRUE
    ELSE IF Head(a) # Head(b) THEN Head(a) < Head(b)
    ELSE seq_lt(Tail(a), Tail(b))

str_lt(a, b) == seq_lt(ord[a], ord[b])

maxpython ==
    CHOOSE v \in Range(supported_python_versions) :
        \A w \in Range(supported_python_versions) : ~str_lt(v, w)

minpython ==
    CHOOSE v \in Range(supported_python_versions) :
        \A w \in Range(supported_python_versions) : ~str_lt(w, v)

current_python == "3" \o "." \o ToString(version_info)

running_on_ci == CI

RECURSIVE join(_, _)
join(sep, strs) ==
    IF strs = <<>> THEN ""
    ELSE IF Len(strs) = 1 THEN strs[1]
    ELSE strs[1] \o sep \o join(sep, Tail(strs))

\* variant: the resolution segment is appended whatever the resolution
_get_requirements_filepath_always_appends(category, version, resolution) ==
    "ci_requirements" \o "/" \o join("-", <<category, version, resolution>>) \o ".txt"

\* variant: only the part of the resolution before its hyphen is appended
_get_requirements_filepath_cut_at_hyphen(category, version, resolution) ==
    LET specifiers == <<category, version>>
                      \o (IF resolution # "highest" THEN <<"lowest">> ELSE <<>>)
    IN  "ci_requirements" \o "/" \o join("-", specifiers) \o ".txt"

_get_requirements_filepath(category, version, resolution) ==
    LET requirements_directory == "ci_requirements"
        specifiers == <<category, version>>
                      \o (IF resolution # "highest" THEN <<resolution>> ELSE <<>>)
    IN  requirements_directory \o "/" \o join("-", specifiers) \o ".txt"

\* the default of the resolution parameter
default_resolution == "highest"

----------------------------------------------------------------------------
(* The steps a session body performs *)

Debug(msg) == [op |-> "debug", args |-> <<msg>>]
SetEnv(key, value) == [op |-> "env", args |-> <<key, value>>]
Install(args) == [op |-> "install", args |-> args]
RunInstall(args) == [op |-> "run_install", args |-> args]
Run(args) == [op |-> "run", args |-> args]

\* the operations that start an external process
External == {"install", "run_install", "run"}

\* variant: every exit code is accepted
success_codes_any == {0, 1}

\* session.install and session.run raise unless the exit code is one of these
success_codes == {0}

\* the exit codes an external process may return
ExitCodes == {0, 1}

\* session.invoked_from: the directory nox was started in
invoked_from == "/PlasmaPy"

\* pathlib's "/" on relative parts
PathJoin(parts) == join("/", parts)

----------------------------------------------------------------------------
(* requirements *)

category_version_resolution ==
    [i \in 1..Len(supported_python_versions) |->
        <<"tests", supported_python_versions[i], "highest">>]
    \o << <<"tests", minpython, "lowest-direct">>,
          <<"docs", maxpython, "highest">>,
          <<"all", maxpython, "highest">> >>

category_flags ==
    ("all" :> <<"--all-extras">>) @@ ("docs" :> <<"--extra", "docs">>)
    @@ ("tests" :> <<"--extra", "tests">>)

compile_command ==
    <<"python", "-m", "uv", "pip", "compile", "pyproject.toml", "--upgrade",
      "--quiet", "--custom-compile-command", "nox -s requirements">>

requirements(s) ==
    <<Install(<<"uv >= 0.2.23">>)>>
    \o [i \in 1..Len(category_version_resolution) |->
          LET category   == category_version_resolution[i][1]
              version    == category_version_resolution[i][2]
              resolution == category_version_resolution[i][3]
              filename   == _get_requirements_filepath(category, version, resolution)
          IN  Run(compile_command
                  \o <<"--python-version", version>>
                  \o category_flags[category]
                  \o <<"--output-file", filename, "--resolution", resolution>>
                  \o s.posargs)]

----------------------------------------------------------------------------
(* tests *)

pytest_command ==
    <<"pytest", "--pyargs", "--durations=5", "--tb=short", "-n=auto",
      "--dist=loadfile">>

with_doctests == <<"--doctest-modules", "--doctest-continue-on-failure">>

with_coverage ==
    <<"--cov=plasmapy", "--cov-report=xml", "--cov-config=pyproject.toml",
      "--cov-append", "--cov-report", "xml:coverage.xml">>

skipslow == <<"-m", "not slow">>

\* nox.param(arg, id=id): the session function receives arg, the id only
\* names the session
param(arg, id) == [args |-> arg, id |-> id]

test_specifiers ==
    << param(<<"run all tests">>, "all"),
       param(<<"skip slow tests">>, "skipslow"),
       param(<<"with code coverage">>, "cov"),
       param(<<"lowest-direct">>, "lowest-direct") >>

\* variant: the variant is never recognised as lowest-direct
tests_resolution_always_highest(test_specifier) ==
    IF test_specifier = "lowest direct" THEN "lowest-direct" ELSE "highest"

tests_resolution(test_specifier) ==
    IF test_specifier = "lowest-direct" THEN "lowest-direct" ELSE "highest"

\* variant: coverage is looked up by the variant's id
tests_options_cov_by_id(s, test_specifier) ==
    LET options1 ==
            IF test_specifier = "skip slow tests" THEN skipslow ELSE <<>>
        options2 ==
            options1 \o (IF test_specifier = "cov" THEN with_coverage ELSE <<>>)
    IN  options2
        \o (IF s.python = maxpython /\ test_specifier \in {"all", "skipslow"}
            THEN with_doctests ELSE <<>>)

tests_options(s, test_specifier) ==
    LET options1 ==
            IF test_specifier = "skip slow tests" THEN skipslow ELSE <<>>
        options2 ==
            options1
            \o (IF test_specifier = "with code coverage" THEN with_coverage ELSE <<>>)
    IN  options2
        \o (IF s.python = maxpython /\ test_specifier \in {"all", "skipslow"}
            THEN with_doctests ELSE <<>>)

tests(s, test_specifier) ==
    LET resolution == tests_resolution(test_specifier)
        requirements_file ==
            _get_requirements_filepath("tests", s.python, resolution)
        options == tests_options(s, test_specifier)
    IN  (IF Truthy(GH_TOKEN) THEN <<SetEnv("GH_TOKEN", GH_TOKEN.value)>> ELSE <<>>)
        \o << Install(<<"-r", requirements_file, ".[tests]">>),
              Run(pytest_command \o options \o s.posargs) >>

dev_repositories ==
    << param(<<"numpy">>, "numpy"),
       param(<<"https://github.com/astropy/astropy">>, "astropy"),
       param(<<"https://github.com/pydata/xarray">>, "xarray"),
       param(<<"https://github.com/lmfit/lmfit-py">>, "lmfit"),
       param(<<"https://github.com/pandas-dev/pandas">>, "pandas") >>

run_tests_with_dev_version_of(s, repository) ==
    << IF repository # "numpy"
       THEN Install(<<"git+" \o repository>>)
       ELSE RunInstall(<<"uv", "pip", "install", "-U", "--pre", "--only-binary",
                         ":all:", "-i",
                         "https://pypi.anaconda.org/scientific-python-nightly-wheels/simple",
                         "numpy">>),
       Install(<<".[tests]">>),
       Run(pytest_command \o s.posargs) >>

----------------------------------------------------------------------------
(* docs, linkcheck *)

sphinx_commands ==
    <<"sphinx-build", "docs/", "docs/build/html", "--nitpicky",
      "--fail-on-warning", "--keep-going", "-q">>

build_html == <<"--builder", "html">>
check_hyperlinks == <<"--builder", "linkcheck">>
docs_requirements == _get_requirements_filepath("docs", maxpython, default_resolution)

doc_troubleshooting_message ==
    "Tips for troubleshooting common documentation build failures"
LINKCHECK_TROUBLESHOOTING ==
    "The Sphinx configuration variables linkcheck_ignore and linkcheck_allowed_redirects"
MYPY_TROUBLESHOOTING ==
    "To learn more about type hints, check out mypy's cheat sheet"

landing_page == PathJoin(<<invoked_from, "docs", "build", "html", "index.html">>)

preview_message == "The documentation may be previewed at " \o landing_page
not_found_message == "Documentation preview landing page not found: " \o landing_page

\* variant: the report is made on CI as well
docs_report_on_ci_too ==
    IF landing_exists THEN <<Debug(preview_message)>>
    ELSE <<Debug(not_found_message)>>

\* the last statement of docs, evaluated when control reaches it
docs_report ==
    IF ~Truthy(running_on_ci) /\ landing_exists THEN <<Debug(preview_message)>>
    ELSE IF ~Truthy(running_on_ci) THEN <<Debug(not_found_message)>>
    ELSE <<>>

docs(s) ==
    (IF Truthy(running_on_ci) THEN <<Debug(doc_troubleshooting_message)>> ELSE <<>>)
    \o << Install(<<"-r", docs_requirements, ".">>),
          Run(sphinx_commands \o build_html \o s.posargs) >>
    \o docs_report

docs_dev_repositories ==
    << param(<<"github", "sphinx-doc/sphinx">>, "sphinx"),
       param(<<"github", "readthedocs/sphinx_rtd_theme">>, "sphinx_rtd_theme"),
       param(<<"github", "spatialaudio/nbsphinx">>, "nbsphinx") >>

build_docs_with_dev_version_of(s, site, repository) ==
    << Install(<<"git+https://" \o site \o ".com/" \o repository, ".[docs]">>),
       Run(sphinx_commands \o build_html \o s.posargs) >>

linkcheck(s) ==
    (IF Truthy(running_on_ci) THEN <<Debug(LINKCHECK_TROUBLESHOOTING)>> ELSE <<>>)
    \o << Install(<<"-r", docs_requirements>>),
          Install(<<".">>),
          Run(sphinx_commands \o check_hyperlinks \o s.posargs) >>

----------------------------------------------------------------------------
(* mypy, import, build, autotyping, cff, manifest, lint *)

MYPY_COMMAND ==
    <<"mypy", ".", "--install-types", "--non-interactive", "--show-error-context",
      "--show-error-code-links", "--pretty">>

mypy(s) ==
    LET requirements_file == _get_requirements_filepath("tests", s.python, "highest")
    IN  (IF Truthy(running_on_ci) THEN <<Debug(MYPY_TROUBLESHOOTING)>> ELSE <<>>)
        \o << Install(<<"pip">>),
              Install(<<"-r", requirements_file, ".[tests]">>),
              Run(MYPY_COMMAND \o s.posargs) >>

try_import(s) ==
    << Install(<<".">>),
       Run(<<"python", "-c", "import plasmapy">> \o s.posargs) >>

build_command == <<"python", "-m", "build">>

\* variant: twine check does not receive the extra arguments
build_without_posargs(s) ==
    << Install(<<"twine", "build">>),
       Run(build_command \o <<"--sdist">>),
       Run(build_command \o <<"--wheel">>),
       Run(<<"twine", "check", "dist/*">>) >>

build(s) ==
    << Install(<<"twine", "build">>),
       Run(build_command \o <<"--sdist">>),
       Run(build_command \o <<"--wheel">>),
       Run(<<"twine", "check", "dist/*">> \o s.posargs) >>

AUTOTYPING_SAFE == <<"--none-return", "--scalar-return", "--annotate-magics">>
AUTOTYPING_RISKY ==
    AUTOTYPING_SAFE
    \o <<"--bool-param", "--int-param", "--float-param", "--str-param",
         "--bytes-param", "--annotate-imprecise-magics">>

\* the single argument of autotyping is the tuple of options itself
autotyping_options ==
    << param(AUTOTYPING_SAFE, "safe"), param(AUTOTYPING_RISKY, "aggressive") >>

DEFAULT_PATHS == <<"src", "tests", "tools", "*.py", ".github", "docs/*.py">>

autotyping(s, options) ==
    LET paths == IF s.posargs # <<>> THEN s.posargs ELSE DEFAULT_PATHS
    IN  << Install(<<".[tests,docs]", "autotyping", "typing_extensions">>),
           Run(<<"python", "-m", "autotyping">> \o options \o paths) >>

cff(s) ==
    << Install(<<"cffconvert">>),
       Run(<<"cffconvert", "--validate">> \o s.posargs) >>

manifest(s) ==
    << Install(<<"check-manifest">>),
       Run(<<"check-manifest">> \o s.posargs) >>

lint(s) ==
    << Install(<<"pre-commit">>),
       Run(<<"pre-commit", "run", "--all-files", "--show-diff-on-failure">>
           \o s.posargs) >>

----------------------------------------------------------------------------
(* The sessions nox registers when it loads the module *)

\* session.python of a session declared without python=
NoPython == ""

Registration(func, python, p, name) ==
    [name |-> name, func |-> func, python |-> python, args |-> p.args, id |-> p.id]

NoParam == param(<<>>, "")

sessions ==
    {Registration("requirements", NoPython, NoParam, "requirements")}
    \cup {Registration("tests", v, p, "tests-" \o v \o "(" \o p.id \o ")") :
            v \in Range(supported_python_versions), p \in Range(test_specifiers)}
    \cup {Registration("run_tests_with_dev_version_of", maxpython, p,
                       "run_tests_with_dev_version_of(" \o p.id \o ")") :
            p \in Range(dev_repositories)}
    \cup {Registration("docs", maxpython, NoParam, "docs")}
    \cup {Registration("build_docs_with_dev_version_of", maxpython, p,
                       "build_docs_with_dev_version_of(" \o p.id \o ")") :
            p \in Range(docs_dev_repositories)}
    \cup {Registration("linkcheck", maxpython, NoParam, "linkcheck")}
    \cup {Registration("mypy", maxpython, NoParam, "mypy")}
    \cup {Registration("try_import", NoPython, NoParam, "import")}
    \cup {Registration("build", NoPython, NoParam, "build")}
    \cup {Registration("autotyping", NoPython, p, "autotyping(" \o p.id \o ")") :
            p \in Range(autotyping_options)}
    \cup {Registration("cff", NoPython, NoParam, "cff")}
    \cup {Registration("manifest", NoPython, NoParam, "manifest")}
    \cup {Registration("lint", NoPython, NoParam, "lint")}

session_names == {r.name : r \in sessions}

\* nox.options.sessions: what nox runs when no session is named
options_sessions == <<"tests-" \o current_python \o "(skipslow)">>

NoSession == [name |-> "", func |-> "", python |-> NoPython, args |-> <<>>, id |-> ""]

\* the body of the running session, as the steps it performs in order
Body(r) ==
    LET s == [python |-> r.python, posargs |-> posargs]
    IN  CASE r.func = "requirements" -> requirements(s)
          [] r.func = "tests" -> tests(s, r.args[1])
          [] r.func = "run_tests_with_dev_version_of" ->
                run_tests_with_dev_version_of(s, r.args[1])
          [] r.func = "docs" -> docs(s)
          [] r.func = "build_docs_with_dev_version_of" ->
                build_docs_with_dev_version_of(s, r.args[1], r.args[2])
          [] r.func = "linkcheck" -> linkcheck(s)
          [] r.func = "mypy" -> mypy(s)
          [] r.func = "try_import" -> try_import(s)
          [] r.func = "build" -> build(s)
          [] r.func = "autotyping" -> autotyping(s, r.args)
          [] r.func = "cff" -> cff(s)
          [] r.func = "manifest" -> manifest(s)
          [] r.func = "lint" -> lint(s)
          [] OTHER -> <<>>

----------------------------------------------------------------------------
(* One nox invocation *)

EnvValues == {Unset, EnvValue(""), EnvValue("true")}

categories == {"docs", "tests", "all"}
versions == {"3.10", "3.11", "3.12", "3.13", "3.14", "3.15"}
resolutions == {"highest", "lowest-direct", "lowest"}

\* the number of direct calls of _get_requirements_filepath that are followed
MaxCalls == 2

Init ==
    /\ CI \in EnvValues
    /\ GH_TOKEN \in {Unset, EnvValue("ghp")}
    /\ version_info \in MinMinor..MaxMinor
    /\ posargs \in SeqsUpTo(PosargWords, MaxPosargs)
    /\ landing_exists \in BOOLEAN
    /\ selected = <<>>
    /\ session = NoSession
    /\ pc = 0
    /\ result = "idle"
    /\ env = <<>>
    /\ log = <<>>
    /\ calls = <<>>

\* nox looks the selected name up among the registered sessions
Select(names) ==
    /\ selected' = names
    /\ IF names[1] \in session_names
       THEN /\ session' = CHOOSE r \in sessions : r.name = names[1]
            /\ pc' = 1
            /\ result' = "running"
       ELSE /\ result' = "not_found"
            /\ UNCHANGED <<session, pc>>
    /\ UNCHANGED <<CI, GH_TOKEN, version_info, posargs, landing_exists, env, log, calls>>

\* `nox`
nox_default ==
    /\ result = "idle"
    /\ Select(options_sessions)

\* `nox -s name`
nox_s(name) ==
    /\ result = "idle"
    /\ Select(<<name>>)

AtStep(op) ==
    /\ result = "running"
    /\ pc <= Len(Body(session))
    /\ Body(session)[pc].op = op

Logged(step, code) == [op |-> step.op, args |-> step.args, exit |-> code]

\* what follows an external command that exited with code
Completed(code) ==
    IF code \in success_codes
    THEN /\ pc' = pc + 1
         /\ result' = result
    ELSE /\ pc' = pc
         /\ result' = "failed"

session_debug ==
    /\ AtStep("debug")
    /\ log' = Append(log, Logged(Body(session)[pc], 0))
    /\ pc' = pc + 1
    /\ UNCHANGED <<CI, GH_TOKEN, version_info, posargs, landing_exists, selected,
                   session, result, env, calls>>

session_env ==
    /\ AtStep("env")
    /\ env' = Append(env, Body(session)[pc].args)
    /\ log' = Append(log, Logged(Body(session)[pc], 0))
    /\ pc' = pc + 1
    /\ UNCHANGED <<CI, GH_TOKEN, version_info, posargs, landing_exists, selected,
                   session, result, calls>>

session_install ==
    /\ AtStep("install") \/ AtStep("run_install")
    /\ \E code \in ExitCodes :
          /\ log' = Append(log, Logged(Body(session)[pc], code))
          /\ Completed(code)
    /\ UNCHANGED <<CI, GH_TOKEN, version_info, posargs, landing_exists, selected,
                   session, env, calls>>

\* sphinx-build owns docs/build/html; no other command touches the landing page
session_run ==
    /\ AtStep("run")
    /\ \E code \in ExitCodes :
          /\ log' = Append(log, Logged(Body(session)[pc], code))
          /\ Completed(code)
    /\ IF Head(Body(session)[pc].args) = "sphinx-build"
       THEN landing_exists' \in BOOLEAN
       ELSE landing_exists' = landing_exists
    /\ UNCHANGED <<CI, GH_TOKEN, version_info, posargs, selected, session, env, calls>>

\* the body returns without raising
session_return ==
    /\ result = "running"
    /\ pc > Len(Body(session))
    /\ result' = "success"
    /\ UNCHANGED <<CI, GH_TOKEN, version_info, posargs, landing_exists, selected,
                   session, pc, env, log, calls>>

Next ==
    \/ nox_default
    \/ \E name \in session_names : nox_s(name)
    \/ session_debug
    \/ session_env
    \/ session_install
    \/ session_run
    \/ session_return

Spec == Init /\ [][Next]_vars

----------------------------------------------------------------------------
(* Direct calls of _get_requirements_filepath *)

InitCalls ==
    /\ CI = Unset
    /\ GH_TOKEN = Unset
    /\ version_info = MaxMinor
    /\ posargs = <<>>
    /\ landing_exists = FALSE
    /\ selected = <<>>
    /\ session = NoSession
    /\ pc = 0
    /\ result = "idle"
    /\ env = <<>>
    /\ log = <<>>
    /\ calls = <<>>

Called(category, version, resolution, omitted, path) ==
    [category |-> category, version |-> version, resolution |-> resolution,
     omitted |-> omitted, path |-> path]

call_with_resolution(category, version, resolution) ==
    /\ Len(calls) < MaxCalls
    /\ calls' = Append(calls, Called(category, version, resolution, FALSE,
                    _get_requirements_filepath(category, version, resolution)))
    /\ UNCHANGED <<CI, GH_TOKEN, version_info, posargs, landing_exists, selected,
                   session, pc, result, env, log>>

call_without_resolution(category, version) ==
    /\ Len(calls) < MaxCalls
    /\ calls' = Append(calls, Called(category, version, default_resolution, TRUE,
                    _get_requirements_filepath(category, version, default_resolution)))
    /\ UNCHANGED <<CI, GH_TOKEN, version_info, posargs, landing_exists, selected,
                   session, pc, result, env, log>>

NextCalls ==
    \/ \E c \in categories, v \in versions, r \in resolutions :
          call_with_resolution(c, v, r)
    \/ \E c \in categories, v \in versions : call_without_resolution(c, v)

SpecCalls == InitCalls /\ [][NextCalls]_vars

----------------------------------------------------------------------------
(* Properties *)

\* flags occur in args as a contiguous run
HasFlags(args, flags) ==
    \E k \in 0..(Len(args) - Len(flags)) : SubSeq(args, k + 1, k + Len(flags)) = flags

\* the positions of the log holding steps of kind op
Steps(op) == {i \in 1..Len(log) : log[i].op = op}

\* the argument lists of the session.run calls made so far, in order
RECURSIVE RunsOf(_)
RunsOf(l) ==
    IF l = <<>> THEN <<>>
    ELSE (IF Head(l).op = "run" THEN <<Head(l).args>> ELSE <<>>) \o RunsOf(Tail(l))

Emitted(msg) == \E i \in Steps("debug") : log[i].args = <<msg>>

\* C1: in every tests session the pytest command carries the doctest flags
\* if and only if the session's python is the maximum supported version and
\* the variant id is all or skipslow.
C1_DoctestsIffMaxPythonAndAllOrSkipslow ==
    session.func = "tests" =>
        \A i \in Steps("run") :
            HasFlags(log[i].args, with_doctests)
            <=> (session.python = maxpython /\ session.id \in {"all", "skipslow"})

\* C2: _get_requirements_filepath returns ci_requirements/<category>-<version>.txt
\* when the resolution is "highest" or omitted, and
\* ci_requirements/<category>-<version>-<resolution>.txt otherwise.
C2_PathFormat ==
    \A i \in 1..Len(calls) :
        LET c == calls[i]
        IN  /\ c.omitted \/ c.resolution = "highest" =>
                  c.path = "ci_requirements/" \o c.category \o "-" \o c.version \o ".txt"
            /\ ~c.omitted /\ c.resolution # "highest" =>
                  c.path = "ci_requirements/" \o c.category \o "-" \o c.version
                           \o "-" \o c.resolution \o ".txt"

C2_Witness ==
    /\ Len(calls) = 2
    /\ calls[1].omitted
    /\ ~calls[2].omitted /\ calls[2].resolution = "lowest-direct"

\* C3: two calls of _get_requirements_filepath with distinct
\* (category, version, resolution) triples return distinct paths.
C3_Injective ==
    \A i, j \in 1..Len(calls) :
        calls[i].path = calls[j].path =>
            /\ calls[i].category = calls[j].category
            /\ calls[i].version = calls[j].version
            /\ calls[i].resolution = calls[j].resolution

C3_Witness ==
    /\ Len(calls) = 2
    /\ calls[1].category = calls[2].category
    /\ calls[1].version = calls[2].version
    /\ calls[1].resolution = "lowest-direct"
    /\ calls[2].resolution = "lowest"
    /\ calls[1].path # calls[2].path

\* C4: every tests session installs from ci_requirements/tests-<v>-lowest-direct.txt
\* in the lowest-direct variant and from ci_requirements/tests-<v>.txt in the
\* variants all, skipslow and cov, v being the session's own python.
C4_TestsRequirementsFile ==
    session.func = "tests" =>
        \A i \in Steps("install") :
            log[i].args =
                <<"-r",
                  "ci_requirements/tests-" \o session.python
                     \o (IF session.id = "lowest-direct" THEN "-lowest-direct" ELSE "")
                     \o ".txt",
                  ".[tests]">>

C4_Witness ==
    /\ session.func = "tests"
    /\ session.id = "lowest-direct"
    /\ session.python = "3.11"
    /\ Steps("install") # {}

\* C5: the steps of a session body run in program order, and an install or
\* run step that exits non-zero is the last step of the session, which fails:
\* no pytest after a failed install, no wheel build or twine check after a
\* failed sdist build, no further compile after a failed compile.
C5_FirstFailureHalts ==
    /\ \A i \in 1..Len(log) :
          /\ log[i].op = Body(session)[i].op
          /\ log[i].args = Body(session)[i].args
          /\ log[i].exit # 0 => i = Len(log) /\ result = "failed"
    /\ result = "failed" => Len(log) > 0 /\ log[Len(log)].exit # 0
    /\ result = "success" => Len(log) = Len(Body(session))

C5_Witness ==
    /\ session.func = "build"
    /\ result = "failed"
    /\ Len(log) = 2
    /\ log[1].exit = 0
    /\ log[2].args = <<"python", "-m", "build", "--sdist">>
    /\ log[2].exit = 1

\* the troubleshooting hint of a documentation session
Hint(func) ==
    IF func = "docs" THEN doc_troubleshooting_message ELSE LINKCHECK_TROUBLESHOOTING

\* C6 as stated: docs and linkcheck alike emit the hint and no local-preview
\* message when the CI flag is set; when it is not set they emit no hint and
\* report the landing page's location if it exists after the build.
C6_BothReportLandingPage ==
    session.func \in {"docs", "linkcheck"} /\ result = "success" =>
        /\ Truthy(CI) => Emitted(Hint(session.func)) /\ ~Emitted(preview_message)
        /\ ~Truthy(CI) =>
              /\ ~Emitted(Hint(session.func))
              /\ landing_exists => Emitted(preview_message)

\* C6 as amended: docs and linkcheck emit their hint first, and no
\* local-preview message, when the CI flag is set to a non-empty value, and
\* no hint otherwise; only docs reports the landing page: off CI, once its
\* install and build have succeeded, its last step reports the page's
\* location if the page exists and that it was not found otherwise;
\* linkcheck never reports a landing page.
C6_OnlyDocsReportsLandingPage ==
    session.func \in {"docs", "linkcheck"} =>
        /\ Truthy(CI) =>
              /\ Len(log) > 0 => log[1] = Logged(Debug(Hint(session.func)), 0)
              /\ ~Emitted(preview_message)
              /\ ~Emitted(not_found_message)
        /\ ~Truthy(CI) => ~Emitted(Hint(session.func))
        /\ session.func = "docs" /\ ~Truthy(CI) /\ result = "success" =>
              /\ Len(log) = 3
              /\ log[1].exit = 0 /\ log[2].exit = 0
              /\ log[3] = Logged(Debug(IF landing_exists THEN preview_message
                                       ELSE not_found_message), 0)
        /\ session.func = "linkcheck" =>
              ~Emitted(preview_message) /\ ~Emitted(not_found_message)

C6_Witness ==
    /\ session.func = "docs"
    /\ result = "success"
    /\ CI = EnvValue("")
    /\ landing_exists
    /\ Emitted(preview_message)

\* C7: running nox with no session named selects exactly one session,
\* tests-<current_python>(skipslow), and whatever Python nox runs under that
\* name is one of the sessions the tests task registers.
C7_DefaultSessionIsRegistered ==
    selected = options_sessions =>
        /\ Len(selected) = 1
        /\ selected[1] = "tests-" \o current_python \o "(skipslow)"
        /\ selected[1] \in {r.name : r \in {q \in sessions : q.func = "tests"}}
        /\ result # "not_found"

\* C8: the pytest command of a tests session is pytest_command, then the
\* variant's options, then the caller's extra arguments; the options hold
\* the filter -m "not slow" iff the variant is skipslow and the coverage
\* flags iff the variant is cov.
C8_PytestCommand ==
    session.func = "tests" =>
        \A i \in Steps("run") :
            LET cmd  == log[i].args
                base == <<"pytest", "--pyargs", "--durations=5", "--tb=short",
                          "-n=auto", "--dist=loadfile">>
                opts == SubSeq(cmd, Len(base) + 1, Len(cmd) - Len(posargs))
            IN  /\ Len(cmd) >= Len(base) + Len(posargs)
                /\ SubSeq(cmd, 1, Len(base)) = base
                /\ SubSeq(cmd, Len(cmd) - Len(posargs) + 1, Len(cmd)) = posargs
                /\ HasFlags(opts, <<"-m", "not slow">>) <=> session.id = "skipslow"
                /\ HasFlags(opts, <<"--cov=plasmapy">>) <=> session.id = "cov"
                /\ HasFlags(opts, <<"--cov-append">>) <=> session.id = "cov"
                /\ HasFlags(opts, <<"--cov-report", "xml:coverage.xml">>)
                      <=> session.id = "cov"

C8_Witness ==
    /\ session.func = "tests"
    /\ session.id = "cov"
    /\ posargs # <<>>
    /\ Steps("run") # {}

\* the auxiliary sessions and the fixed command of each
Auxiliary == {"mypy", "try_import", "build", "cff", "manifest", "lint"}

FixedCommand(func) ==
    CASE func = "mypy" ->
            <<"mypy", ".", "--install-types", "--non-interactive",
              "--show-error-context", "--show-error-code-links", "--pretty">>
      [] func = "try_import" -> <<"python", "-c", "import plasmapy">>
      [] func = "build" -> <<"twine", "check", "dist/*">>
      [] func = "cff" -> <<"cffconvert", "--validate">>
      [] func = "manifest" -> <<"check-manifest">>
      [] func = "lint" ->
            <<"pre-commit", "run", "--all-files", "--show-diff-on-failure">>

\* C9 as stated: every auxiliary session makes a single external-tool
\* invocation, its fixed command followed by the caller's extra arguments.
C9_SingleInvocation ==
    session.func \in Auxiliary /\ result = "success" =>
        RunsOf(log) = << FixedCommand(session.func) \o posargs >>

\* C9 as amended: mypy, import, cff, manifest and lint each make one
\* session.run call, the fixed command followed by the caller's extra
\* arguments; build makes three: python -m build --sdist, python -m build
\* --wheel, both without the extra arguments, then twine check dist/*
\* followed by the extra arguments.
C9_SingleInvocationExceptBuild ==
    session.func \in Auxiliary /\ result = "success" =>
        RunsOf(log) =
            (IF session.func = "build"
             THEN << <<"python", "-m", "build", "--sdist">>,
                     <<"python", "-m", "build", "--wheel">> >>
             ELSE <<>>)
            \o << FixedCommand(session.func) \o posargs >>

C9_Witness ==
    /\ session.func = "build"
    /\ result = "success"
    /\ posargs # <<>>
    /\ Len(RunsOf(log)) = 3

\* the files one complete successful run of requirements writes
RequirementsOutputs ==
    {_get_requirements_filepath(t[1], t[2], t[3]) :
        t \in Range(category_version_resolution)}

\* C10: every requirements file a session installs from is one of the
\* files the requirements session writes.
C10_InstalledFilesAreRegenerated ==
    \A i \in Steps("install") :
        Head(log[i].args) = "-r" => log[i].args[2] \in RequirementsOutputs

====
